---- MODULE Spec2Model ----
(***************************************************************************)
(* A model of the ToyEVM interpreter of src/src/vm.rs: the machine state   *)
(* of struct VM, one action per arm of the match in VM::exec, and the      *)
(* driver loop of VM::exec_transaction.                                    *)
(*                                                                         *)
(* A U256 is held as its 32 bytes, least significant first (the limb order *)
(* of the uint crate); a [u8; 32] buffer is big-endian, so the two         *)
(* conversions reverse the bytes.  A Rust panic is recorded in the field   *)
(* abort of the machine record: every helper leaves an aborted machine as  *)
(* it is, so the state at the panic is the state the unwinding leaves.     *)
(***************************************************************************)
EXTENDS Integers, Sequences, FiniteSets, TLC

VARIABLES
    code_owner,  \* env.code_owner: H160, 20 big-endian bytes
    sender,      \* env.sender
    code,        \* env.code: Vec<u8>
    input,       \* env.input: Vec<u8>
    pc,          \* vm.pc
    gas,         \* vm.gas
    sp,          \* vm.sp
    stack,       \* vm.stack: Vec<U256>
    memory,      \* vm.memory: Vec<u8>
    asm,         \* vm.asm: Vec<String>
    returns,     \* vm.returns
    storage,     \* the contract's AccountState storage
    status,      \* where exec_transaction stands: running, halted, finished, aborted
    abort,       \* the panic that ended the run, "" when none
    gas0,        \* history: the gas VM::new computed
    last,        \* history: the last dispatch (opcode, machine before it, exec's result)
    last_store,  \* history: <<address, value>> of the last MSTORE that returned, <<>> when
                 \* there is none or CODECOPY wrote to the memory since
    ndispatched, \* history: dispatches that returned
    spec_gas,    \* history: the specification table's cost of the dispatches that returned
    taken        \* history: the JUMPI dispatches that moved pc to their destination

vars == <<code_owner, sender, code, input, pc, gas, sp, stack, memory, asm,
          returns, storage, status, abort, gas0, last, last_store, ndispatched,
          spec_gas, taken>>

env_vars == <<code_owner, sender, code, input, gas0>>

-----------------------------------------------------------------------------
(* Word algebra (ethereum_types::U256)                                     *)

Min(a, b) == IF a < b THEN a ELSE b

Max(a, b) == IF a < b THEN b ELSE a

\* a byte string as a tuple
Tuple(f) == SubSeq(f, 1, Len(f))

Reverse(s) == Tuple([i \in 1..Len(s) |-> s[Len(s) + 1 - i]])

\* digit i (1 = least significant) of a little-endian byte string, 0 beyond it
Digit(w, i) == IF i >= 1 /\ i <= Len(w) THEN w[i] ELSE 0

\* the index of the most significant nonzero byte, 0 for zero
Top(w) ==
    LET nz == {i \in 1..Len(w) : w[i] # 0}
    IN  IF nz = {} THEN 0 ELSE CHOOSE i \in nz : \A j \in nz : j <= i

U256_zero == Tuple([i \in 1..32 |-> 0])

\* U256::from of a machine integer below 2^31
U256_from(n) ==
    Tuple([i \in 1..32 |-> IF i <= 4 THEN (n \div (256 ^ (i - 1))) % 256 ELSE 0])

\* From<[u8; 32]> for U256: the buffer is big-endian
U256_from_bytes(bytes) == Reverse(bytes)

\* Into<[u8; 32]> for U256
U256_to_bytes(w) == Reverse(w)

is_zero(w) == \A i \in 1..Len(w) : w[i] = 0

\* a < b, on byte strings of any length: the most significant digit that
\* differs decides
U256_lt(a, b) ==
    \E i \in 1..Max(Len(a), Len(b)) :
        /\ Digit(a, i) < Digit(b, i)
        /\ \A k \in (i + 1)..Max(Len(a), Len(b)) : Digit(a, k) = Digit(b, k)

\* The carry loops below run over a span lo..hi of digits by halves, the carry
\* out of the lower half going into the upper one: the digits come out as in
\* the digit-by-digit loop, with the last carry behind them.

\* the digits lo..hi of a + b with carry c into digit lo, then the carry out
RECURSIVE AddFrom(_, _, _, _, _)
AddFrom(a, b, lo, hi, c) ==
    IF lo = hi
    THEN <<(a[lo] + b[lo] + c) % 256, (a[lo] + b[lo] + c) \div 256>>
    ELSE LET mid == (lo + hi) \div 2
             l == AddFrom(a, b, lo, mid, c)
         IN  SubSeq(l, 1, Len(l) - 1) \o AddFrom(a, b, mid + 1, hi, l[Len(l)])

overflowing_add(a, b) ==
    LET d == AddFrom(a, b, 1, 32, 0)
    IN  [value |-> SubSeq(d, 1, 32), overflow |-> d[33] # 0]

\* the digits lo..hi of a - b with borrow c into digit lo, then the borrow out
RECURSIVE SubFrom(_, _, _, _, _)
SubFrom(a, b, lo, hi, c) ==
    IF lo = hi
    THEN <<(a[lo] - Digit(b, lo) - c + 256) % 256,
           IF a[lo] - Digit(b, lo) - c < 0 THEN 1 ELSE 0>>
    ELSE LET mid == (lo + hi) \div 2
             l == SubFrom(a, b, lo, mid, c)
         IN  SubSeq(l, 1, Len(l) - 1) \o SubFrom(a, b, mid + 1, hi, l[Len(l)])

overflowing_sub(a, b) ==
    LET d == SubFrom(a, b, 1, 32, 0)
    IN  [value |-> SubSeq(d, 1, 32), overflow |-> d[33] # 0]

\* the sum of a[i] * b[k + 1 - i] over i in lo..hi: column k of the product
RECURSIVE ColumnSum(_, _, _, _, _)
ColumnSum(a, b, k, lo, hi) ==
    IF lo > hi THEN 0
    ELSE IF lo = hi THEN a[lo] * b[k + 1 - lo]
    ELSE ColumnSum(a, b, k, lo, (lo + hi) \div 2)
         + ColumnSum(a, b, k, (lo + hi) \div 2 + 1, hi)

\* the digits lo..hi of a * b with carry c into digit lo, then the carry out
RECURSIVE MulFrom(_, _, _, _, _, _, _)
MulFrom(a, b, la, lb, lo, hi, c) ==
    IF lo = hi
    THEN LET t == ColumnSum(a, b, lo, Max(1, lo + 1 - lb), Min(la, lo)) + c
         IN  <<t % 256, t \div 256>>
    ELSE LET mid == (lo + hi) \div 2
             l == MulFrom(a, b, la, lb, lo, mid, c)
         IN  SubSeq(l, 1, Len(l) - 1) \o MulFrom(a, b, la, lb, mid + 1, hi, l[Len(l)])

\* a product has no more digits than its factors have together
overflowing_mul(a, b) ==
    LET d == IF Top(a) = 0 \/ Top(b) = 0 THEN <<0>>
             ELSE MulFrom(a, b, Top(a), Top(b), 1, Top(a) + Top(b), 0)
    IN  [value |-> Tuple([i \in 1..32 |-> Digit(d, i)]),
         overflow |-> \E k \in 33..Len(d) : d[k] # 0]

\* the digits lo..hi of a * q for one byte q with carry c, then the carry out
RECURSIVE MulSmallFrom(_, _, _, _, _)
MulSmallFrom(a, q, lo, hi, c) ==
    IF lo = hi
    THEN <<(a[lo] * q + c) % 256, (a[lo] * q + c) \div 256>>
    ELSE LET mid == (lo + hi) \div 2
             l == MulSmallFrom(a, q, lo, mid, c)
         IN  SubSeq(l, 1, Len(l) - 1) \o MulSmallFrom(a, q, mid + 1, hi, l[Len(l)])

\* a * q: one digit more than a has
MulSmall(a, q) == MulSmallFrom(a, q, 1, Len(a), 0)

\* the largest byte q with q * b <= r, found bit by bit
RECURSIVE QuotientDigit(_, _, _, _)
QuotientDigit(r, b, q, bit) ==
    IF bit = 0 THEN q
    ELSE IF U256_lt(r, MulSmall(b, q + bit))
         THEN QuotientDigit(r, b, q, bit \div 2)
         ELSE QuotientDigit(r, b, q + bit, bit \div 2)

\* one step of the long division: digit k of a comes down to the remainder s.r
\* and the quotient s.q gains its digit k
DivDigit(a, b, k, s) ==
    LET r1 == <<a[k]>> \o SubSeq(s.r, 1, 32)
        q == QuotientDigit(r1, b, 0, 128)
    IN  [q |-> <<q>> \o s.q,
         r |-> SubSeq(SubFrom(r1, MulSmall(b, q), 1, 33, 0), 1, 33)]

\* long division over the digits hi down to lo of a, by halves, from the
\* quotient digits and the remainder s left by the digits above hi (the guard
\* has s computed before the digits below are worked on)
RECURSIVE DivFrom(_, _, _, _, _)
DivFrom(a, b, s, lo, hi) ==
    IF Len(s.r) # 33 \/ lo > hi THEN s
    ELSE IF lo = hi THEN DivDigit(a, b, lo, s)
    ELSE DivFrom(a, b, DivFrom(a, b, s, (lo + hi) \div 2 + 1, hi), lo, (lo + hi) \div 2)

\* a / b for b # 0
U256_div(a, b) ==
    LET d == DivFrom(a, b, [q |-> <<>>, r |-> U256_zero \o <<0>>], 1, Top(a))
    IN  Tuple([i \in 1..32 |-> Digit(d.q, i)])

\* self >> 1
U256_shr1(w) == Tuple([i \in 1..32 |-> (w[i] \div 2) + 128 * (Digit(w, i + 1) % 2)])

\* one turn of the loop of U256::pow (while n > 1): square and multiply, each
\* product checked for overflow; a turn after the loop has ended changes nothing
PowTurn(s) ==
    IF s.overflow \/ ~U256_lt(U256_from(1), s.n) THEN s
    ELSE LET xx == overflowing_mul(s.x, s.x)
             xy == overflowing_mul(s.x, s.y)
         IN  IF s.n[1] % 2 = 0
             THEN [x |-> xx.value, y |-> s.y, n |-> U256_shr1(s.n),
                   overflow |-> xx.overflow]
             ELSE [x |-> xx.value, y |-> xy.value, n |-> U256_shr1(s.n),
                   overflow |-> xy.overflow \/ xx.overflow]

\* count turns of the loop, by halves
RECURSIVE PowLoop(_, _)
PowLoop(s, count) ==
    IF s.overflow \/ ~U256_lt(U256_from(1), s.n) THEN s
    ELSE IF count = 1 THEN PowTurn(s)
    ELSE PowLoop(PowLoop(s, count \div 2), count - count \div 2)

\* n halves with every turn, so 256 turns end the loop
overflowing_pow(x, n) ==
    IF is_zero(n) THEN [value |-> U256_from(1), overflow |-> FALSE]
    ELSE LET s == PowLoop([x |-> x, y |-> U256_from(1), n |-> n, overflow |-> FALSE], 256)
             r == overflowing_mul(s.x, s.y)
         IN  IF s.overflow THEN [value |-> s.x, overflow |-> TRUE] ELSE r

\* bit k of a byte
Bit(x, k) == (x \div (2 ^ k)) % 2

\* a bitwise operation on one byte
ByteBits(x, y, f(_, _)) ==
    f(Bit(x, 0), Bit(y, 0)) + 2 * f(Bit(x, 1), Bit(y, 1))
    + 4 * f(Bit(x, 2), Bit(y, 2)) + 8 * f(Bit(x, 3), Bit(y, 3))
    + 16 * f(Bit(x, 4), Bit(y, 4)) + 32 * f(Bit(x, 5), Bit(y, 5))
    + 64 * f(Bit(x, 6), Bit(y, 6)) + 128 * f(Bit(x, 7), Bit(y, 7))

BitAnd(p, q) == p * q

BitOr(p, q) == IF p + q > 0 THEN 1 ELSE 0

BitXor(p, q) == (p + q) % 2

U256_and(a, b) == Tuple([i \in 1..32 |-> ByteBits(a[i], b[i], BitAnd)])

U256_or(a, b) == Tuple([i \in 1..32 |-> ByteBits(a[i], b[i], BitOr)])

U256_xor(a, b) == Tuple([i \in 1..32 |-> ByteBits(a[i], b[i], BitXor)])

U256_not(a) == Tuple([i \in 1..32 |-> 255 - a[i]])

\* self >> n for a shift n in bits; a shift of 256 or more leaves zero
U256_shr(w, n) ==
    LET bytes == n \div 8
        bits  == n % 8
    IN  Tuple([i \in 1..32 |->
            ((Digit(w, i + bytes) \div (2 ^ bits))
             + (Digit(w, i + bytes + 1) % (2 ^ bits)) * (2 ^ (8 - bits))) % 256])

-----------------------------------------------------------------------------
(* Address/byte utilities and the account storage (util, state)            *)

\* util::h160_to_u256: the 20 bytes of the address, zero-extended in the high bytes
h160_to_u256(address) == U256_from_bytes(Tuple([i \in 1..12 |-> 0]) \o address)

\* util::slice_to_array: the first 32 bytes of the slice, zero-padded on the right
slice_to_array(slice) == Tuple([i \in 1..32 |-> Digit(slice, i)])

HexDigits ==
    <<"0", "1", "2", "3", "4", "5", "6", "7", "8", "9", "a", "b", "c", "d", "e", "f">>

\* hex::encode of one byte
hex_encode(b) == <<HexDigits[(b \div 16) + 1], HexDigits[(b % 16) + 1]>>

\* AccountState::new: no key is set
EmptyStorage == [k \in {} |-> U256_zero]

\* AccountState::get_storage: a key never set reads as zero
get_storage(st, key) == IF key \in DOMAIN st THEN st[key] ELSE U256_zero

\* AccountState::set_storage
set_storage(st, key, value) ==
    [k \in (DOMAIN st) \cup {key} |-> IF k = key THEN value ELSE st[k]]

-----------------------------------------------------------------------------
(* The machine (struct VM) and the helpers of impl VM                      *)

Machine ==
    [pc |-> pc, gas |-> gas, sp |-> sp, stack |-> stack, memory |-> memory,
     asm |-> asm, returns |-> returns, storage |-> storage, abort |-> abort]

Ok(m) == m.abort = ""

\* a panic: the machine stays as it is from here on
Panic(m, why) == IF Ok(m) THEN [m EXCEPT !.abort = why] ELSE m

\* util::not_implement_panic
not_implement_panic(m) == Panic(m, "not implemented")

\* VM::push leaving sp as it is
push_keeps_sp(m, value) ==
    IF ~Ok(m) THEN m
    ELSE [m EXCEPT !.stack = Append(@, value)]

\* VM::push
push(m, value) ==
    IF ~Ok(m) THEN m
    ELSE [m EXCEPT !.stack = Append(@, value), !.sp = @ + 1]

\* the value VM::pop returns
popped(m) ==
    IF Ok(m) /\ Len(m.stack) > 0 THEN m.stack[Len(m.stack)] ELSE U256_zero

\* VM::pop giving the zero word on the empty stack instead of panicking
pop_or_default(m) ==
    IF ~Ok(m) THEN m
    ELSE IF Len(m.stack) = 0 THEN m
    ELSE [m EXCEPT !.stack = SubSeq(@, 1, Len(@) - 1), !.sp = @ - 1]

\* VM::pop: Vec::pop().unwrap() panics on the empty stack, then sp -= 1
pop(m) ==
    IF ~Ok(m) THEN m
    ELSE IF Len(m.stack) = 0 THEN Panic(m, "unwrap on None")
    ELSE IF m.sp = 0
         THEN Panic([m EXCEPT !.stack = SubSeq(@, 1, Len(@) - 1)], "subtract with overflow")
    ELSE [m EXCEPT !.stack = SubSeq(@, 1, Len(@) - 1), !.sp = @ - 1]

\* consume_gas without the check of the balance
consume_gas_unchecked(m, n) ==
    IF ~Ok(m) THEN m ELSE [m EXCEPT !.gas = @ - n]

\* VM::consume_gas
consume_gas(m, n) ==
    IF ~Ok(m) THEN m
    ELSE IF m.gas >= n THEN [m EXCEPT !.gas = @ - n]
    ELSE Panic(m, "shortage of gas")

\* VM::push_asm
push_asm(m, mnemonic) ==
    IF ~Ok(m) THEN m ELSE [m EXCEPT !.asm = Append(@, mnemonic)]

\* Indices of 2^29 and more are folded to 2^29: each of them lies beyond every
\* vector the model holds, so an access there is out of range alike.
HugeIndex == 536870912

\* U256::as_u32() as usize, of a word that fits 32 bits
as_u32(w) ==
    IF w[4] >= 32 THEN HugeIndex
    ELSE w[1] + 256 * w[2] + 65536 * w[3] + 16777216 * w[4]

\* U256::as_u32 panics when the word does not fit 32 bits
check_u32(m, w) ==
    IF ~Ok(m) THEN m
    ELSE IF Top(w) > 4 THEN Panic(m, "Integer overflow when casting to u32")
    ELSE m

\* Vec::insert(index, byte) on the memory: shifts the tail, panics past the end
memory_insert(m, index, b) ==
    IF ~Ok(m) THEN m
    ELSE IF index > Len(m.memory) THEN Panic(m, "insertion index out of bounds")
    ELSE [m EXCEPT !.memory =
              SubSeq(@, 1, index) \o <<b>> \o SubSeq(@, index + 1, Len(@))]

-----------------------------------------------------------------------------
(* 0x00: arithmetic                                                        *)

\* op_stop recording nothing
op_stop_silent(m) == m

op_stop(m) == push_asm(m, <<"STOP">>)

\* op_add appending its mnemonic before it charges the gas
op_add_mnemonic_first(m) ==
    LET m1 == consume_gas(push_asm(m, <<"ADD">>), 3)
        operand1 == popped(m1)
        m2 == pop(m1)
        operand2 == popped(m2)
        m3 == pop(m2)
        result == overflowing_add(operand1, operand2)
    IN  IF ~Ok(m3) THEN m3
        ELSE IF result.overflow THEN Panic(m3, "arithmetic operation overflow")
        ELSE push(m3, result.value)

\* U256 + U256 panics on overflow
op_add(m) ==
    LET m1 == push_asm(consume_gas(m, 3), <<"ADD">>)
        operand1 == popped(m1)
        m2 == pop(m1)
        operand2 == popped(m2)
        m3 == pop(m2)
        result == overflowing_add(operand1, operand2)
    IN  IF ~Ok(m3) THEN m3
        ELSE IF result.overflow THEN Panic(m3, "arithmetic operation overflow")
        ELSE push(m3, result.value)

\* U256 * U256 panics on overflow
op_mul(m) ==
    LET m1 == push_asm(consume_gas(m, 5), <<"MUL">>)
        operand1 == popped(m1)
        m2 == pop(m1)
        operand2 == popped(m2)
        m3 == pop(m2)
        result == overflowing_mul(operand1, operand2)
    IN  IF ~Ok(m3) THEN m3
        ELSE IF result.overflow THEN Panic(m3, "arithmetic operation overflow")
        ELSE push(m3, result.value)

\* U256 - U256 panics on overflow
op_sub(m) ==
    LET m1 == push_asm(consume_gas(m, 3), <<"SUB">>)
        operand1 == popped(m1)
        m2 == pop(m1)
        operand2 == popped(m2)
        m3 == pop(m2)
        result == overflowing_sub(operand1, operand2)
    IN  IF ~Ok(m3) THEN m3
        ELSE IF result.overflow THEN Panic(m3, "arithmetic operation overflow")
        ELSE push(m3, result.value)

\* U256 / U256 panics on a zero divisor
op_div(m) ==
    LET m1 == push_asm(consume_gas(m, 5), <<"DIV">>)
        operand1 == popped(m1)
        m2 == pop(m1)
        operand2 == popped(m2)
        m3 == pop(m2)
    IN  IF ~Ok(m3) THEN m3
        ELSE IF is_zero(operand2) THEN Panic(m3, "division by zero")
        ELSE push(m3, U256_div(operand1, operand2))

\* U256::pow panics on overflow
op_exp(m) ==
    LET m1 == push_asm(consume_gas(m, 10), <<"EXP">>)
        operand1 == popped(m1)
        m2 == pop(m1)
        operand2 == popped(m2)
        m3 == pop(m2)
        result == overflowing_pow(operand1, operand2)
    IN  IF ~Ok(m3) THEN m3
        ELSE IF result.overflow THEN Panic(m3, "arithmetic operation overflow")
        ELSE push(m3, result.value)

-----------------------------------------------------------------------------
(* 0x10: comparison and bitwise operations                                 *)

op_lt(m) ==
    LET m1 == push_asm(consume_gas(m, 3), <<"LT">>)
        operand1 == popped(m1)
        m2 == pop(m1)
        operand2 == popped(m2)
        m3 == pop(m2)
    IN  IF U256_lt(operand1, operand2) THEN push(m3, U256_from(1)) ELSE push(m3, U256_from(0))

op_gt(m) ==
    LET m1 == push_asm(consume_gas(m, 3), <<"GT">>)
        operand1 == popped(m1)
        m2 == pop(m1)
        operand2 == popped(m2)
        m3 == pop(m2)
    IN  IF U256_lt(operand2, operand1) THEN push(m3, U256_from(1)) ELSE push(m3, U256_from(0))

op_eq(m) ==
    LET m1 == push_asm(consume_gas(m, 3), <<"EQ">>)
        operand1 == popped(m1)
        m2 == pop(m1)
        operand2 == popped(m2)
        m3 == pop(m2)
    IN  IF operand1 = operand2 THEN push(m3, U256_from(1)) ELSE push(m3, U256_from(0))

op_is_zero(m) ==
    LET m1 == push_asm(consume_gas(m, 3), <<"ISZERO">>)
        operand1 == popped(m1)
        m2 == pop(m1)
    IN  IF operand1 = U256_from(0) THEN push(m2, U256_from(1)) ELSE push(m2, U256_from(0))

op_and(m) ==
    LET m1 == push_asm(consume_gas(m, 3), <<"AND">>)
        operand1 == popped(m1)
        m2 == pop(m1)
        operand2 == popped(m2)
        m3 == pop(m2)
    IN  push(m3, U256_and(operand1, operand2))

op_or(m) ==
    LET m1 == push_asm(consume_gas(m, 3), <<"OR">>)
        operand1 == popped(m1)
        m2 == pop(m1)
        operand2 == popped(m2)
        m3 == pop(m2)
    IN  push(m3, U256_or(operand1, operand2))

op_xor(m) ==
    LET m1 == push_asm(consume_gas(m, 3), <<"XOR">>)
        operand1 == popped(m1)
        m2 == pop(m1)
        operand2 == popped(m2)
        m3 == pop(m2)
    IN  push(m3, U256_xor(operand1, operand2))

op_not(m) ==
    LET m1 == push_asm(consume_gas(m, 3), <<"NOT">>)
        operand1 == popped(m1)
        m2 == pop(m1)
    IN  push(m2, U256_not(operand1))

\* 248 - operand1 * 8 is usize arithmetic: for operand1 >= 32 it panics in a build
\* with overflow checks and wraps in a build without, where the shift by the
\* wrapped amount (at least 2^64 - 2^35) leaves zero.
op_byte(m, overflow_checks) ==
    LET m1 == push_asm(consume_gas(m, 3), <<"BYTE">>)
        operand1 == popped(m1)
        m2 == pop(m1)
        operand2 == popped(m2)
        m3 == check_u32(pop(m2), operand1)
        mask == U256_from(255)
    IN  IF ~Ok(m3) THEN m3
        ELSE IF as_u32(operand1) >= 32
             THEN IF overflow_checks THEN Panic(m3, "attempt to subtract with overflow")
                  ELSE push(m3, U256_and(U256_zero, mask))
        ELSE push(m3, U256_and(U256_shr(operand2, 248 - as_u32(operand1) * 8), mask))

-----------------------------------------------------------------------------
(* 0x30: the execution environment                                         *)

op_address(m) ==
    LET m1 == push_asm(consume_gas(m, 2), <<"ADDRESS">>)
    IN  push(m1, h160_to_u256(code_owner))

op_balance(m) ==
    LET m1 == push_asm(consume_gas(m, 400), <<"BALANCE">>)
    IN  not_implement_panic(pop(m1))

op_caller(m) ==
    LET m1 == push_asm(consume_gas(m, 2), <<"CALLER">>)
    IN  push(m1, h160_to_u256(sender))

\* &input[start..] panics when start is past the end of the input
op_calldataload(m) ==
    LET m1 == push_asm(consume_gas(m, 3), <<"CALLDATALOAD">>)
        w == popped(m1)
        m2 == check_u32(pop(m1), w)
        start == as_u32(w)
    IN  IF ~Ok(m2) THEN m2
        ELSE IF start > Len(input) THEN Panic(m2, "slice index out of range")
        ELSE push(m2, U256_from_bytes(slice_to_array(SubSeq(input, start + 1, Len(input)))))

op_calldatasize(m) ==
    LET m1 == push_asm(consume_gas(m, 2), <<"CALLDATASIZE">>)
    IN  push(m1, U256_from(Len(input)))

\* the iterations i..j-1 of the loop of op_codecopy, by halves; a panic ends it
RECURSIVE codecopy_loop(_, _, _, _, _)
codecopy_loop(m, dest_offset, offset, i, j) ==
    IF ~Ok(m) \/ i >= j THEN m
    ELSE IF j = i + 1
         THEN IF offset + i >= Len(code) THEN Panic(m, "index out of bounds")
              ELSE memory_insert(m, dest_offset + i, code[offset + i + 1])
    ELSE codecopy_loop(codecopy_loop(m, dest_offset, offset, i, (i + j) \div 2),
                       dest_offset, offset, (i + j) \div 2, j)

op_codecopy(m) ==
    LET m1 == push_asm(consume_gas(m, 9), <<"CODECOPY">>)
        w1 == popped(m1)
        m2 == check_u32(pop(m1), w1)
        w2 == popped(m2)
        m3 == check_u32(pop(m2), w2)
        w3 == popped(m3)
        m4 == check_u32(pop(m3), w3)
    IN  codecopy_loop(m4, as_u32(w1), as_u32(w2), 0, as_u32(w3))

-----------------------------------------------------------------------------
(* 0x50: stack, memory, storage and flow                                   *)

\* memory[start + i] panics at the first index past the end
op_mload(m) ==
    LET m1 == push_asm(consume_gas(m, 3), <<"MLOAD">>)
        w == popped(m1)
        m2 == check_u32(pop(m1), w)
        start == as_u32(w)
    IN  IF ~Ok(m2) THEN m2
        ELSE IF \E i \in 0..31 : start + i >= Len(m2.memory)
             THEN Panic(m2, "index out of bounds")
        ELSE push(m2, U256_from_bytes(SubSeq(m2.memory, start + 1, start + 32)))

\* the iterations i..j-1 of the loop of op_mstore, by halves; a panic ends it
RECURSIVE mstore_loop(_, _, _, _, _)
mstore_loop(m, address, bytes, i, j) ==
    IF ~Ok(m) \/ i >= j THEN m
    ELSE IF j = i + 1 THEN memory_insert(m, address + i, bytes[i + 1])
    ELSE mstore_loop(mstore_loop(m, address, bytes, i, (i + j) \div 2),
                     address, bytes, (i + j) \div 2, j)

\* op_mstore writing the word least significant byte first
op_mstore_little_endian(m) ==
    LET m1 == push_asm(consume_gas(m, 6), <<"MSTORE">>)
        w == popped(m1)
        m2 == check_u32(pop(m1), w)
        value == popped(m2)
        m3 == pop(m2)
    IN  mstore_loop(m3, as_u32(w), value, 0, 32)

op_mstore(m) ==
    LET m1 == push_asm(consume_gas(m, 6), <<"MSTORE">>)
        w == popped(m1)
        m2 == check_u32(pop(m1), w)
        value == popped(m2)
        m3 == pop(m2)
    IN  mstore_loop(m3, as_u32(w), U256_to_bytes(value), 0, 32)

\* op_sload popping its key before it charges the gas
op_sload_pops_first(m) ==
    LET key == popped(m)
        m1 == pop(m)
        m2 == push_asm(consume_gas(m1, 200), <<"SLOAD">>)
    IN  push(m2, get_storage(m2.storage, key))

op_sload(m) ==
    LET m1 == push_asm(consume_gas(m, 200), <<"SLOAD">>)
        key == popped(m1)
        m2 == pop(m1)
    IN  push(m2, get_storage(m2.storage, key))

\* op_sstore with the cost of a fresh slot never charged
op_sstore_flat(m) ==
    LET key == popped(m)
        m1 == pop(m)
        value == popped(m1)
        m2 == pop(m1)
        m4 == push_asm(consume_gas(m2, 5000), <<"SSTORE">>)
    IN  IF ~Ok(m4) THEN m4
        ELSE [m4 EXCEPT !.storage = set_storage(@, key, value)]

op_sstore(m) ==
    LET key == popped(m)
        m1 == pop(m)
        value == popped(m1)
        m2 == pop(m1)
        m3 == IF key = U256_from(0) /\ value # U256_from(0)
              THEN consume_gas(m2, 20000)
              ELSE consume_gas(m2, 5000)
        m4 == push_asm(m3, <<"SSTORE">>)
    IN  IF ~Ok(m4) THEN m4
        ELSE [m4 EXCEPT !.storage = set_storage(@, key, value)]

\* op_jump charging nothing
op_jump_free(m) ==
    LET m1 == push_asm(m, <<"JUMP">>)
        w == popped(m1)
        m2 == check_u32(pop(m1), w)
        destination == as_u32(w)
    IN  IF ~Ok(m2) THEN m2
        ELSE IF destination >= Len(code) THEN Panic(m2, "index out of bounds")
        ELSE IF code[destination + 1] # \h5b
             THEN Panic(m2, "op_jump: destination must be JUMPDEST")
        ELSE [m2 EXCEPT !.pc = destination + 1]

op_jump(m) ==
    LET m1 == push_asm(consume_gas(m, 8), <<"JUMP">>)
        w == popped(m1)
        m2 == check_u32(pop(m1), w)
        destination == as_u32(w)
    IN  IF ~Ok(m2) THEN m2
        ELSE IF destination >= Len(code) THEN Panic(m2, "index out of bounds")
        ELSE IF code[destination + 1] # \h5b
             THEN Panic(m2, "op_jump: destination must be JUMPDEST")
        ELSE [m2 EXCEPT !.pc = destination + 1]

\* op_jumpi looking at the destination only when it jumps
op_jumpi_unchecked(m) ==
    LET m1 == push_asm(consume_gas(m, 10), <<"JUMPI">>)
        w1 == popped(m1)
        m2 == check_u32(pop(m1), w1)
        destination == as_u32(w1)
        w2 == popped(m2)
        m3 == check_u32(pop(m2), w2)
        condition == as_u32(w2)
    IN  IF ~Ok(m3) THEN m3
        ELSE IF condition = 0 THEN m3
        ELSE IF destination >= Len(code) THEN Panic(m3, "index out of bounds")
        ELSE IF code[destination + 1] # \h5b
             THEN Panic(m3, "op_jumpi: destination must be JUMPDEST")
        ELSE [m3 EXCEPT !.pc = destination + 1]

\* op_jumpi landing on the JUMPDEST instead of just past it
op_jumpi_onto_jumpdest(m) ==
    LET m1 == push_asm(consume_gas(m, 10), <<"JUMPI">>)
        w1 == popped(m1)
        m2 == check_u32(pop(m1), w1)
        destination == as_u32(w1)
        w2 == popped(m2)
        m3 == check_u32(pop(m2), w2)
        condition == as_u32(w2)
    IN  IF ~Ok(m3) THEN m3
        ELSE IF destination >= Len(code) THEN Panic(m3, "index out of bounds")
        ELSE IF code[destination + 1] # \h5b
             THEN Panic(m3, "op_jumpi: destination must be JUMPDEST")
        ELSE IF condition # 0 THEN [m3 EXCEPT !.pc = destination]
        ELSE m3

op_jumpi(m) ==
    LET m1 == push_asm(consume_gas(m, 10), <<"JUMPI">>)
        w1 == popped(m1)
        m2 == check_u32(pop(m1), w1)
        destination == as_u32(w1)
        w2 == popped(m2)
        m3 == check_u32(pop(m2), w2)
        condition == as_u32(w2)
    IN  IF ~Ok(m3) THEN m3
        ELSE IF destination >= Len(code) THEN Panic(m3, "index out of bounds")
        ELSE IF code[destination + 1] # \h5b
             THEN Panic(m3, "op_jumpi: destination must be JUMPDEST")
        ELSE IF condition # 0 THEN [m3 EXCEPT !.pc = destination + 1]
        ELSE m3

op_jumpdest(m) == push_asm(consume_gas(m, 1), <<"JUMPDEST">>)

-----------------------------------------------------------------------------
(* 0x60-0x7f: PUSH                                                         *)

\* the iterations i..j-1 of the loop of op_push, by halves, on the machine, the
\* operand buffer and the hex text so far; a panic ends it
RECURSIVE push_loop(_, _, _, _)
push_loop(r, length, i, j) ==
    IF ~Ok(r.vm) \/ i >= j THEN r
    ELSE IF j = i + 1
         THEN IF r.vm.pc >= Len(code)
              THEN [r EXCEPT !.vm = Panic(@, "index out of bounds")]
              ELSE [vm |-> [r.vm EXCEPT !.pc = @ + 1],
                    operand |-> [r.operand EXCEPT ![32 - length + i + 1] = code[r.vm.pc + 1]],
                    operand_str |-> r.operand_str \o hex_encode(code[r.vm.pc + 1])]
    ELSE push_loop(push_loop(r, length, i, (i + j) \div 2), length, (i + j) \div 2, j)

\* op_push with the immediate at the front of the buffer
op_push_left(m, length) ==
    LET read == push_loop([vm |-> m, operand |-> Tuple([i \in 1..32 |-> 0]),
                           operand_str |-> <<>>], length, 0, length)
        m1 == consume_gas(read.vm, 3)
        m2 == push_asm(m1, <<"PUSH", " ">> \o read.operand_str)
        operand == Tuple([i \in 1..32 |-> Digit(read.operand, 32 - length + i)])
    IN  push(m2, U256_from_bytes(operand))

\* op_push reading zeros past the end of the code
op_push_padded(m, length) ==
    LET bytes == Tuple([i \in 1..length |-> Digit(code, m.pc + i)])
        operand == Tuple([i \in 1..32 |->
                        IF i > 32 - length THEN bytes[i - (32 - length)] ELSE 0])
        operand_str == Tuple([j \in 1..(2 * length) |->
                        hex_encode(bytes[(j + 1) \div 2])[2 - (j % 2)]])
        m1 == consume_gas([m EXCEPT !.pc = @ + length], 3)
        m2 == push_asm(m1, <<"PUSH", " ">> \o operand_str)
    IN  push(m2, U256_from_bytes(operand))

op_push(m, length) ==
    LET read == push_loop([vm |-> m, operand |-> Tuple([i \in 1..32 |-> 0]),
                           operand_str |-> <<>>], length, 0, length)
        m1 == consume_gas(read.vm, 3)
        m2 == push_asm(m1, <<"PUSH", " ">> \o read.operand_str)
    IN  push(m2, U256_from_bytes(read.operand))

-----------------------------------------------------------------------------
(* 0x80: DUP, 0x90: SWAP                                                   *)

\* stack[sp - 1] and stack[sp - index - 1]: the subtraction underflows, or the
\* wrapped index is out of range; either way the access panics
op_dup(m, index) ==
    LET m1 == consume_gas(m, 3)
        m2 == IF Ok(m1) /\ (m1.sp < 1 \/ m1.sp - 1 >= Len(m1.stack))
              THEN Panic(m1, "index out of bounds") ELSE m1
        operand == IF Ok(m2) THEN m2.stack[m2.sp] ELSE U256_zero
        m3 == push_asm(m2, <<"DUP">>)
    IN  IF ~Ok(m3) THEN m3
        ELSE IF m3.sp > 1
             THEN IF m3.sp < index + 1 \/ m3.sp - index - 1 >= Len(m3.stack)
                  THEN Panic(m3, "index out of bounds")
                  ELSE [m3 EXCEPT !.stack[m3.sp - index] = operand]
        ELSE push(m3, operand)

\* op_swap reaching one element short
op_swap_short(m, index) ==
    LET m1 == push_asm(consume_gas(m, 3), <<"SWAP">>)
        m2 == IF Ok(m1) /\ (m1.sp < 1 \/ m1.sp - 1 >= Len(m1.stack))
              THEN Panic(m1, "index out of bounds") ELSE m1
    IN  IF ~Ok(m2) THEN m2
        ELSE IF m2.sp < index THEN Panic(m2, "index out of bounds")
        ELSE LET operand1 == m2.stack[m2.sp]
                 operand2 == m2.stack[m2.sp - index + 1]
             IN  [m2 EXCEPT !.stack = [[@ EXCEPT ![m2.sp] = operand2]
                                          EXCEPT ![m2.sp - index + 1] = operand1]]

op_swap(m, index) ==
    LET m1 == push_asm(consume_gas(m, 3), <<"SWAP">>)
        m2 == IF Ok(m1) /\ (m1.sp < 1 \/ m1.sp - 1 >= Len(m1.stack))
              THEN Panic(m1, "index out of bounds") ELSE m1
        m3 == IF Ok(m2) /\ (m2.sp < index + 1 \/ m2.sp - index - 1 >= Len(m2.stack))
              THEN Panic(m2, "index out of bounds") ELSE m2
    IN  IF ~Ok(m3) THEN m3
        ELSE LET operand1 == m3.stack[m3.sp]
                 operand2 == m3.stack[m3.sp - index]
             IN  [m3 EXCEPT !.stack = [[@ EXCEPT ![m3.sp] = operand2]
                                          EXCEPT ![m3.sp - index] = operand1]]

-----------------------------------------------------------------------------
(* 0xf0                                                                    *)

\* op_return taking length for the end of the range
op_return_to_length(m) ==
    LET m1 == push_asm(m, <<"RETURN">>)
        w1 == popped(m1)
        m2 == check_u32(pop(m1), w1)
        offset == as_u32(w1)
        w2 == popped(m2)
        m3 == check_u32(pop(m2), w2)
        length == as_u32(w2)
    IN  IF ~Ok(m3) THEN m3
        ELSE IF length > Len(m3.memory) THEN Panic(m3, "slice index out of range")
        ELSE [m3 EXCEPT !.returns = SubSeq(m3.memory, offset + 1, length)]

\* &memory[offset..offset + length] panics when the range ends past the memory
op_return(m) ==
    LET m1 == push_asm(m, <<"RETURN">>)
        w1 == popped(m1)
        m2 == check_u32(pop(m1), w1)
        offset == as_u32(w1)
        w2 == popped(m2)
        m3 == check_u32(pop(m2), w2)
        length == as_u32(w2)
    IN  IF ~Ok(m3) THEN m3
        ELSE IF offset + length > Len(m3.memory) THEN Panic(m3, "slice index out of range")
        ELSE [m3 EXCEPT !.returns = SubSeq(m3.memory, offset + 1, offset + length)]

-----------------------------------------------------------------------------
(* The dispatcher (VM::exec) and the driver (VM::exec_transaction)         *)

\* the arms of the match whose handler records its mnemonic and is not implemented
Stubs ==
    (\h05 :> "SDIV") @@
    (\h06 :> "MOD") @@
    (\h07 :> "SMOD") @@
    (\h08 :> "ADDMOD") @@
    (\h09 :> "MULMOD") @@
    (\h0b :> "SIGNEXTEND") @@
    (\h12 :> "SLT") @@
    (\h13 :> "SGT") @@
    (\h20 :> "SHA3") @@
    (\h32 :> "ORIGIN") @@
    (\h34 :> "CALLVALUE") @@
    (\h37 :> "CALLDATACOPY") @@
    (\h38 :> "CODESIZE") @@
    (\h3a :> "GASPRICE") @@
    (\h3b :> "EXTCODESIZE") @@
    (\h3c :> "EXTCODECOPY") @@
    (\h3d :> "RETURNDATASIZE") @@
    (\h3e :> "RETURNDATACOPY") @@
    (\h3f :> "EXTCODEHASH") @@
    (\h40 :> "BLOCKHASH") @@
    (\h41 :> "COINBASE") @@
    (\h42 :> "TIMESTAMP") @@
    (\h43 :> "NUMBER") @@
    (\h44 :> "DIFFICULTY") @@
    (\h45 :> "GASLIMIT") @@
    (\h50 :> "POP") @@
    (\h58 :> "PC") @@
    (\h59 :> "MSIZE") @@
    (\h5a :> "GAS") @@
    (\ha0 :> "LOG0") @@
    (\ha1 :> "LOG1") @@
    (\ha2 :> "LOG2") @@
    (\ha3 :> "LOG3") @@
    (\ha4 :> "LOG4") @@
    (\hf0 :> "CREATE") @@
    (\hf1 :> "CALL") @@
    (\hf2 :> "CALLCODE") @@
    (\hf4 :> "DELEGATECALL") @@
    (\hf5 :> "CREATE2") @@
    (\hfa :> "STATICCALL") @@
    (\hfd :> "REVERT") @@
    (\hff :> "SELFDESTRUCT")

op_stub(m, mnemonic) == not_implement_panic(push_asm(m, <<mnemonic>>))

PushOpcodes == \h60..\h7f

DupOpcodes == \h80..\h8f

SwapOpcodes == \h90..\h9f

\* the opcodes that have an arm of their own
Arms ==
    {\h00, \h01, \h02, \h03, \h04, \h0a, \h10, \h11, \h14, \h15, \h16, \h17, \h18, \h19, \h1a, \h30, \h31, \h33, \h35, \h36, \h39, \h51, \h52, \h54, \h55, \h56, \h57, \h5b, \hf3}
    \cup (DOMAIN Stubs) \cup PushOpcodes \cup DupOpcodes \cup SwapOpcodes

\* VM::exec before the match: the opcode at pc is fetched and pc += 1
fetch(m) == [m EXCEPT !.pc = @ + 1]

\* the flag of exec taken for 0x3f
exec_flag_3f(opcode) == opcode = \h3f

\* the flag of exec true for STOP as well
exec_flag_stop_halts(opcode) == opcode \in {\h00, \hf3}

\* the flag VM::exec returns: true for RETURN only
exec_flag(opcode) == opcode = \hf3

\* The gas column of the specification's opcode table, for a stack whose top is
\* a and whose second element is b; opcodes outside the table cost nothing here.
SpecCost(opcode, stk) ==
    LET a == IF Len(stk) >= 1 THEN stk[Len(stk)] ELSE U256_zero
        b == IF Len(stk) >= 2 THEN stk[Len(stk) - 1] ELSE U256_zero
    IN  CASE opcode \in {\h01, \h03, \h10, \h11, \h14, \h15, \h16, \h17, \h18, \h19,
                         \h1a, \h35, \h51} -> 3
          [] opcode \in PushOpcodes \cup DupOpcodes \cup SwapOpcodes -> 3
          [] opcode \in {\h02, \h04} -> 5
          [] opcode = \h0a -> 10
          [] opcode \in {\h30, \h33, \h36} -> 2
          [] opcode = \h39 -> 9
          [] opcode = \h52 -> 6
          [] opcode = \h54 -> 200
          [] opcode = \h55 -> IF a = U256_zero /\ b # U256_zero THEN 20000 ELSE 5000
          [] opcode = \h56 -> 8
          [] opcode = \h57 -> 10
          [] opcode = \h5b -> 1
          [] OTHER -> 0

\* the loop of exec_transaction goes on to call exec, which fetches an opcode of S
Fetch(S) ==
    /\ status = "running"
    /\ pc < Len(code)
    /\ code[pc + 1] \in S

\* The end of one call of exec from the loop of exec_transaction: m is the machine
\* the handler left (the handler runs once, its result is then written to each
\* field); exec returns its flag, or the panic has ended the run.
Commit(handled) ==
    \E m \in {handled}, opcode \in {code[pc + 1]} :
        /\ pc' = m.pc
        /\ gas' = m.gas
        /\ sp' = m.sp
        /\ stack' = m.stack
        /\ memory' = m.memory
        /\ asm' = m.asm
        /\ returns' = m.returns
        /\ storage' = m.storage
        /\ abort' = m.abort
        /\ status' = IF ~Ok(m) THEN "aborted"
                     ELSE IF exec_flag(opcode) THEN "halted"
                     ELSE "running"
        /\ last' = [opcode |-> opcode, pre |-> Machine,
                    flag |-> IF ~Ok(m) THEN "panic"
                             ELSE IF exec_flag(opcode) THEN "true"
                             ELSE "false"]
        /\ last_store' = IF Ok(m) /\ opcode = \h52
                          THEN <<stack[Len(stack)], stack[Len(stack) - 1]>>
                          ELSE IF opcode = \h39 THEN <<>>
                          ELSE last_store
        /\ ndispatched' = IF Ok(m) THEN ndispatched + 1 ELSE ndispatched
        /\ spec_gas' = IF Ok(m) THEN spec_gas + SpecCost(opcode, stack) ELSE spec_gas
        /\ taken' = IF Ok(m) /\ opcode = \h57 /\ m.pc # pc + 1 THEN taken + 1 ELSE taken
        /\ UNCHANGED env_vars

\* One action for each arm of the match of exec.

ExecStop ==
    /\ Fetch({\h00})
    /\ Commit(op_stop(fetch(Machine)))

ExecAdd ==
    /\ Fetch({\h01})
    /\ Commit(op_add(fetch(Machine)))

ExecMul ==
    /\ Fetch({\h02})
    /\ Commit(op_mul(fetch(Machine)))

ExecSub ==
    /\ Fetch({\h03})
    /\ Commit(op_sub(fetch(Machine)))

ExecDiv ==
    /\ Fetch({\h04})
    /\ Commit(op_div(fetch(Machine)))

ExecExp ==
    /\ Fetch({\h0a})
    /\ Commit(op_exp(fetch(Machine)))

ExecLt ==
    /\ Fetch({\h10})
    /\ Commit(op_lt(fetch(Machine)))

ExecGt ==
    /\ Fetch({\h11})
    /\ Commit(op_gt(fetch(Machine)))

ExecEq ==
    /\ Fetch({\h14})
    /\ Commit(op_eq(fetch(Machine)))

ExecIsZero ==
    /\ Fetch({\h15})
    /\ Commit(op_is_zero(fetch(Machine)))

ExecAnd ==
    /\ Fetch({\h16})
    /\ Commit(op_and(fetch(Machine)))

ExecOr ==
    /\ Fetch({\h17})
    /\ Commit(op_or(fetch(Machine)))

ExecXor ==
    /\ Fetch({\h18})
    /\ Commit(op_xor(fetch(Machine)))

ExecNot ==
    /\ Fetch({\h19})
    /\ Commit(op_not(fetch(Machine)))

ExecAddress ==
    /\ Fetch({\h30})
    /\ Commit(op_address(fetch(Machine)))

ExecBalance ==
    /\ Fetch({\h31})
    /\ Commit(op_balance(fetch(Machine)))

ExecCaller ==
    /\ Fetch({\h33})
    /\ Commit(op_caller(fetch(Machine)))

ExecCallDataLoad ==
    /\ Fetch({\h35})
    /\ Commit(op_calldataload(fetch(Machine)))

ExecCallDataSize ==
    /\ Fetch({\h36})
    /\ Commit(op_calldatasize(fetch(Machine)))

ExecCodeCopy ==
    /\ Fetch({\h39})
    /\ Commit(op_codecopy(fetch(Machine)))

ExecMLoad ==
    /\ Fetch({\h51})
    /\ Commit(op_mload(fetch(Machine)))

ExecMStore ==
    /\ Fetch({\h52})
    /\ Commit(op_mstore(fetch(Machine)))

ExecSLoad ==
    /\ Fetch({\h54})
    /\ Commit(op_sload(fetch(Machine)))

ExecSStore ==
    /\ Fetch({\h55})
    /\ Commit(op_sstore(fetch(Machine)))

ExecJump ==
    /\ Fetch({\h56})
    /\ Commit(op_jump(fetch(Machine)))

ExecJumpI ==
    /\ Fetch({\h57})
    /\ Commit(op_jumpi(fetch(Machine)))

ExecJumpDest ==
    /\ Fetch({\h5b})
    /\ Commit(op_jumpdest(fetch(Machine)))

ExecReturn ==
    /\ Fetch({\hf3})
    /\ Commit(op_return(fetch(Machine)))

ExecByte ==
    /\ Fetch({\h1a})
    /\ \E overflow_checks \in BOOLEAN : Commit(op_byte(fetch(Machine), overflow_checks))

ExecPush ==
    /\ Fetch(PushOpcodes)
    /\ Commit(op_push(fetch(Machine), code[pc + 1] - \h60 + 1))

ExecDup ==
    /\ Fetch(DupOpcodes)
    /\ Commit(op_dup(fetch(Machine), code[pc + 1] - \h80 + 1))

ExecSwap ==
    /\ Fetch(SwapOpcodes)
    /\ Commit(op_swap(fetch(Machine), code[pc + 1] - \h90 + 1))

ExecStub ==
    /\ Fetch(DOMAIN Stubs)
    /\ Commit(op_stub(fetch(Machine), Stubs[code[pc + 1]]))

\* the arm _ => not_implement_panic()
ExecUnknown ==
    /\ Fetch((0..255) \ Arms)
    /\ Commit(not_implement_panic(fetch(Machine)))

\* the loop of exec_transaction ends when pc is at or past the end of the code
LoopExit ==
    /\ status = "running"
    /\ pc >= Len(code)
    /\ status' = "finished"
    /\ UNCHANGED <<pc, gas, sp, stack, memory, asm, returns, storage, abort,
                   last, last_store, ndispatched, spec_gas, taken>>
    /\ UNCHANGED env_vars

-----------------------------------------------------------------------------
(* The runs the model explores: the programs of the source's tests, and        *)
(* families of short programs around each opcode                               *)

\* the code of the #[test] functions of vm.rs
code_test_add ==
    <<\h60, \h05, \h60, \h04, \h01>>

code_test_sub ==
    <<\h60, \h04, \h60, \h05, \h03>>

code_test_mul ==
    <<\h60, \h03, \h60, \h06, \h02>>

code_test_div ==
    <<\h60, \h03, \h60, \h06, \h04>>

code_test_exp ==
    <<\h60, \h03, \h60, \h02, \h0a>>

code_test_mload ==
    <<\h60, \h05, \h60, \h04, \h01, \h60, \h00, \h52, \h60, \h00, \h51>>

code_test_add2 ==
    <<\h61, \h01, \h01, \h61, \h01, \h02, \h01>>

code_test_calldataload ==
    <<\h60, \h00, \h35, \h60, \h20, \h35, \h01>>

code_test_calldatasize ==
    <<\h36>>

code_test_jumpi ==
    <<\h60, \h00, \h35, \h60, \h00, \h52, \h5b, \h60, \h01, \h60, \h00, \h51, \h03,
      \h60, \h00, \h52, \h60, \h00, \h51, \h60, \h06, \h57>>

code_test_dup1 ==
    <<\h60, \h05, \h60, \h04, \h80>>

code_test_swap1 ==
    <<\h60, \h05, \h60, \h04, \h90>>

code_test_loop ==
    <<\h60, \h00, \h35, \h5b, \h60, \h01, \h90, \h03, \h80, \h60, \h03, \h57>>

code_test_loop2 ==
    <<\h36, \h60, \h20, \h03, \h61, \h01, \h00, \h0a, \h60, \h00, \h35, \h04, \h5b,
      \h60, \h01, \h90, \h03, \h80, \h60, \h0c, \h57>>

code_test_deploy ==
    <<\h60, \h05, \h80, \h60, \h0b, \h60, \h00, \h39, \h60, \h00, \hf3, \h60, \h05,
      \h60, \h04, \h01>>

\* a 32-byte big-endian buffer holding a small number
Word32(n) == Tuple([i \in 1..32 |-> IF i = 32 THEN n ELSE 0])

\* gas enough for every run of the model
BigGas == 100000

\* gas that runs out after two PUSHes and a cheap opcode
ScarceGas == 8

\* the depth of stack the DUP/SWAP programs build
MaxDepth == 17

\* the number of MSTOREs of the memory programs
MaxStores == 3

ZeroAddress == Tuple([i \in 1..20 |-> 0])

SomeAddress == Tuple([i \in 1..20 |-> 16 * i + 1])

Case(c, i, g) ==
    [code |-> c, input |-> i, value |-> g, gas_price |-> 1,
     code_owner |-> ZeroAddress, sender |-> ZeroAddress]

TestCases ==
    {[Case(c, <<>>, 10 * BigGas) EXCEPT !.gas_price = 10] :
        c \in {code_test_add, code_test_sub, code_test_mul, code_test_div, code_test_exp,
               code_test_mload, code_test_add2, code_test_dup1, code_test_swap1,
               code_test_deploy}}
    \cup {Case(code_test_calldataload, Word32(5) \o Word32(4), BigGas),
          Case(code_test_calldatasize, Word32(5), BigGas),
          Case(code_test_jumpi, Word32(5), BigGas),
          Case(code_test_loop, Word32(5), BigGas),
          Case(code_test_loop, Word32(5), 60),
          Case(code_test_loop2, <<1>>, BigGas)}

\* PUSHk of the k bytes given
Push(bytes) == <<\h60 + Len(bytes) - 1>> \o bytes

Ones32 == Tuple([i \in 1..32 |-> 255])

\* immediates: 0, 1, 2, 32, 2^32, 2^128 and 2^256 - 1
Operands ==
    {<<0>>, <<1>>, <<2>>, <<32>>, <<1, 0, 0, 0, 0>>,
     <<1>> \o Tuple([i \in 1..16 |-> 0]), Ones32}

\* every one-byte program
SingleCases == {Case(<<b>>, <<>>, g) : b \in 0..255, g \in {0, BigGas}}

\* the opcodes tried on two pushed operands
BinaryOpcodes ==
    {\h00, \h01, \h02, \h03, \h04, \h0a, \h10, \h11, \h14, \h15, \h16, \h17, \h18,
     \h19, \h1a, \h30, \h31, \h33, \h35, \h36, \h39, \h51, \h52, \h54, \h55, \h56,
     \h57, \h5b, \h80, \h81, \h90, \h91, \hf3, \h50, \h0c}

BinaryCases ==
    {Case(Push(y) \o Push(x) \o <<op>>, <<7>>, g) :
        x \in Operands, y \in Operands, op \in BinaryOpcodes, g \in {ScarceGas, BigGas}}

UnaryCases ==
    {[Case(Push(x) \o <<op>>, <<7, 8>>, BigGas) EXCEPT !.code_owner = SomeAddress,
                                                       !.sender = Reverse(SomeAddress)] :
        x \in Operands, op \in BinaryOpcodes}

\* PUSH1 1 ... PUSH1 n
PushUpTo(n) == Tuple([j \in 1..(2 * n) |-> IF j % 2 = 1 THEN \h60 ELSE j \div 2])

StackCases ==
    {Case(PushUpTo(n) \o <<op>>, <<>>, BigGas) :
        n \in 0..MaxDepth, op \in DupOpcodes \cup SwapOpcodes}

\* PUSHk followed by avail bytes (fewer than k: the code ends inside the immediate)
PushCasesOf(k) ==
    {Case(<<\h60 + k - 1>> \o Tuple([j \in 1..avail |-> (seed * j) % 256]), <<>>, g) :
        avail \in {k - 1, k, k + 1} \cap 1..33, seed \in {0, 1, 255}, g \in {2, BigGas}}

PushCases == UNION {PushCasesOf(k) : k \in 1..32}

\* MSTORE(a, v)
Store(a, v) == Push(v) \o <<\h60, a, \h52>>

\* MLOAD(a)
Load(a) == <<\h60, a, \h51>>

Stores == {Store(a, v) : a \in {0, 32}, v \in {<<5>>, Ones32}} \cup {Store(1, <<9>>)}

RECURSIVE StoreSequences(_)
StoreSequences(n) ==
    IF n = 0 THEN {<<>>}
    ELSE LET shorter == StoreSequences(n - 1)
         IN  shorter \cup {p \o st : p \in shorter, st \in Stores}

MemoryCases ==
    {Case(p \o Load(a), <<>>, BigGas) : p \in StoreSequences(MaxStores), a \in {0, 1, 32}}

\* SSTORE(k, v) and SLOAD(k)
SStore(k, v) == <<\h60, v, \h60, k, \h55>>

SLoad(k) == <<\h60, k, \h54>>

StorageCases ==
    {Case(SStore(k1, v1) \o SStore(k2, v2) \o SLoad(k3), <<>>, g) :
        k1 \in {0, 1}, v1 \in {0, 5}, k2 \in {0, 1}, v2 \in {0, 6}, k3 \in {0, 1},
        g \in {BigGas, 5005, 20005}}

\* PUSH c, PUSH d, JUMPI (or PUSH d, JUMP) in front of STOP JUMPDEST PUSH1 0x5b ADD
JumpTail == <<\h00, \h5b, \h60, \h5b, \h01>>

\* destinations relative to the tail: the STOP, the JUMPDEST, the PUSH1, its 0x5b
\* immediate, the last byte, the end of the code and beyond it
JumpOffsets == 0..6

JumpConditions == {<<0>>, <<1>>, <<1, 0>>, <<1, 0, 0, 0, 0>>, Ones32}

JumpICases ==
    {Case(Push(c) \o <<\h60, Len(c) + 4 + d, \h57>> \o JumpTail, <<>>, g) :
        c \in JumpConditions, d \in JumpOffsets, g \in {BigGas, 15}}
    \cup {Case(Push(c) \o Push(d) \o <<\h57>> \o JumpTail, <<>>, BigGas) :
            c \in JumpConditions,
            d \in {<<1, 0, 0, 0, 7>>, <<255, 255, 255, 255>>, <<0, 0, 0, 11>>}}

JumpCases ==
    {Case(<<\h60, 3 + d, \h56>> \o JumpTail, <<>>, g) : d \in JumpOffsets, g \in {BigGas, 10}}
    \cup {Case(Push(d) \o <<\h56>> \o JumpTail, <<>>, BigGas) :
            d \in {<<1, 0, 0, 0, 6>>, <<255, 255, 255, 255>>, <<0, 0, 0, 6>>}}

\* CODECOPY(dest, offset, length), then RETURN(offset, length)
CopyCases ==
    {Case(<<\h60, n, \h60, o, \h60, d, \h39, \h60, rn, \h60, ro, \hf3, \h00>>, <<>>, BigGas) :
        n \in {0, 2, 13, 14}, o \in {0, 1}, d \in {0, 1}, rn \in {0, 2, 3}, ro \in {0, 1}}

\* CALLDATALOAD(a) on inputs of several lengths
CallDataCases ==
    {Case(<<\h60, a, \h35, \h36>>, Tuple([j \in 1..n |-> j]), BigGas) :
        a \in {0, 1, 31, 32, 33, 34}, n \in {0, 1, 32, 33}}

\* the gas of the programs that loop until it runs out
LoopGas == 200

\* programs that never leave their loop: JUMP back to the JUMPDEST at 0, the
\* same with a word left on the stack each round, and JUMPI back on condition 1;
\* with them the JUMPI on condition 0, which goes on to the end of the code
LoopCases ==
    {Case(c, <<>>, LoopGas) :
        c \in {<<\h5b, \h60, 0, \h56>>,
               <<\h5b, \h60, 7, \h60, 0, \h56>>,
               <<\h5b, \h60, 1, \h60, 0, \h57>>,
               <<\h5b, \h60, 0, \h60, 0, \h57, \h5b>>}}

Cases ==
    TestCases \cup SingleCases \cup BinaryCases \cup UnaryCases \cup StackCases
    \cup PushCases \cup MemoryCases \cup StorageCases \cup JumpICases \cup JumpCases
    \cup CopyCases \cup CallDataCases \cup LoopCases

\* Environment::new, set_code, set_input and VM::new
Init ==
    \E c \in Cases :
        /\ code_owner = c.code_owner
        /\ sender = c.sender
        /\ code = c.code
        /\ input = c.input
        /\ pc = 0
        /\ gas = c.value \div c.gas_price
        /\ sp = 0
        /\ stack = <<>>
        /\ memory = <<>>
        /\ asm = <<>>
        /\ returns = <<>>
        /\ storage = EmptyStorage
        /\ status = "running"
        /\ abort = ""
        /\ gas0 = c.value \div c.gas_price
        /\ last = [opcode |-> -1, pre |-> <<>>, flag |-> "none"]
        /\ last_store = <<>>
        /\ ndispatched = 0
        /\ spec_gas = 0
        /\ taken = 0

Next ==
    \/ ExecStop
    \/ ExecAdd
    \/ ExecMul
    \/ ExecSub
    \/ ExecDiv
    \/ ExecExp
    \/ ExecLt
    \/ ExecGt
    \/ ExecEq
    \/ ExecIsZero
    \/ ExecAnd
    \/ ExecOr
    \/ ExecXor
    \/ ExecNot
    \/ ExecAddress
    \/ ExecBalance
    \/ ExecCaller
    \/ ExecCallDataLoad
    \/ ExecCallDataSize
    \/ ExecCodeCopy
    \/ ExecMLoad
    \/ ExecMStore
    \/ ExecSLoad
    \/ ExecSStore
    \/ ExecJump
    \/ ExecJumpI
    \/ ExecJumpDest
    \/ ExecReturn
    \/ ExecByte
    \/ ExecPush
    \/ ExecDup
    \/ ExecSwap
    \/ ExecStub
    \/ ExecUnknown
    \/ LoopExit

Spec == Init /\ [][Next]_vars

-----------------------------------------------------------------------------
(* Deep stacks.  A run takes a thousand dispatches to build a stack of a   *)
(* thousand words, so the runs below are taken up where n times PUSH1 0    *)
(* has left them: the machine, and the history with it, is the one Spec    *)
(* reaches after the first n dispatches of the code DeepCode(n, tail).     *)

\* The runs followed to their end are those of the looping programs, which
\* hold no other opcode than PUSH1, JUMP, JUMPI and JUMPDEST.
LiveInit == Init /\ \E c \in LoopCases : code = c.code /\ gas0 = c.value

LiveNext == ExecPush \/ ExecJump \/ ExecJumpI \/ ExecJumpDest \/ LoopExit

\* exec_transaction is a sequential loop: as long as a step of it can be taken,
\* one is taken
LiveSpec == LiveInit /\ [][LiveNext]_vars /\ WF_vars(LiveNext)

\* the numbers of PUSH1 0 the deep runs start with
DeepPushes == 1015..1024

\* what follows them: PUSH1 1, PUSH1 1 twice, DUP1, CALLDATASIZE, ADD
DeepTails == {<<\h60, 1>>, <<\h60, 1, \h60, 1>>, <<\h80>>, <<\h36>>, <<\h01>>}

DeepCode(n, tail) == Tuple([j \in 1..(2 * n) |-> IF j % 2 = 1 THEN \h60 ELSE 0]) \o tail

\* the machine after k times PUSH1 0
AfterPushes(k) ==
    [pc |-> 2 * k, gas |-> BigGas - 3 * k, sp |-> k,
     stack |-> Tuple([i \in 1..k |-> U256_zero]), memory |-> <<>>,
     asm |-> Tuple([i \in 1..k |-> <<"PUSH", " ", "0", "0">>]),
     returns |-> <<>>, storage |-> EmptyStorage, abort |-> ""]

DeepInit ==
    \E n \in DeepPushes, tail \in DeepTails :
        /\ code_owner = ZeroAddress
        /\ sender = ZeroAddress
        /\ code = DeepCode(n, tail)
        /\ input = <<>>
        /\ pc = AfterPushes(n).pc
        /\ gas = AfterPushes(n).gas
        /\ sp = AfterPushes(n).sp
        /\ stack = AfterPushes(n).stack
        /\ memory = AfterPushes(n).memory
        /\ asm = AfterPushes(n).asm
        /\ returns = AfterPushes(n).returns
        /\ storage = AfterPushes(n).storage
        /\ status = "running"
        /\ abort = ""
        /\ gas0 = BigGas
        /\ last = [opcode |-> \h60, pre |-> AfterPushes(n - 1), flag |-> "false"]
        /\ last_store = <<>>
        /\ ndispatched = n
        /\ spec_gas = 3 * n
        /\ taken = 0

DeepNext ==
    \/ ExecPush
    \/ ExecDup
    \/ ExecCallDataSize
    \/ ExecAdd
    \/ LoopExit

DeepSpec == DeepInit /\ [][DeepNext]_vars

-----------------------------------------------------------------------------
\* Properties.  `last` describes the latest dispatch: its opcode, the machine
\* before it and whether exec returned true, false or panicked.

Pre == last.pre

Depth == Len(Pre.stack)

Returned == last.flag \in {"true", "false"}

\* the value of a word as an offset into the code, -1 when it reaches past
\* every program of the model
Value(w) == IF Top(w) <= 3 THEN w[1] + 256 * w[2] + 65536 * w[3] ELSE -1

ValidDest(w) ==
    /\ Value(w) >= 0
    /\ Value(w) < Len(code)
    /\ code[Value(w) + 1] = \h5b

\* C1: in a run that ends without an abort, the gas spent (initial gas minus
\* final gas) is the sum over the dispatched opcodes of the cost the
\* specification's table gives them.
C1_GasIsSumOfCosts ==
    status \in {"halted", "finished"} => gas0 - gas = spec_gas

\* test_loop2 ran to its end and spent the 58 gas its test expects
C1_Witness ==
    /\ status = "finished"
    /\ code = code_test_loop2
    /\ gas0 - gas = 58
    /\ spec_gas = 58

\* C2: gas never increases and never goes below zero; a dispatch that returns
\* has taken exactly its cost n from gas, one that finds gas < n aborts, and a
\* dispatch that aborts for shortage of gas leaves gas as it was.
C2_GasMonotone ==
    [][ /\ gas' <= gas
        /\ gas' >= 0
        /\ (status' \in {"running", "halted"}
                => gas' = gas - SpecCost(code[pc + 1], stack))
        /\ (status = "running" /\ pc < Len(code)
                /\ gas < SpecCost(code[pc + 1], stack) => status' = "aborted")
        /\ (abort' = "shortage of gas" => gas' = gas /\ status' = "aborted")
      ]_vars

\* ADD found 2 gas where it needs 3 and aborted with the 2 untouched
C2_Witness ==
    /\ abort = "shortage of gas"
    /\ last.opcode = \h01
    /\ Pre.gas = 2
    /\ gas = 2

\* C3: DUPi on a stack of depth at least i pushes a copy of the element at
\* depth i - 1, the depth grows by one and no element below changes.
C3_DupPushesCopy ==
    (last.opcode \in DupOpcodes /\ Pre.gas >= 3
        /\ Depth >= last.opcode - \h80 + 1)
    => /\ last.flag = "false"
       /\ Len(stack) = Depth + 1
       /\ SubSeq(stack, 1, Depth) = Pre.stack
       /\ stack[Len(stack)] = Pre.stack[Depth - (last.opcode - \h80)]

\* C4: SWAPi on a stack of depth above i exchanges the top with the element
\* at depth i and leaves every other element and the depth as they were.
C4_SwapTransposes ==
    (last.opcode \in SwapOpcodes /\ Pre.gas >= 3
        /\ Depth > last.opcode - \h90 + 1)
    => LET i == last.opcode - \h90 + 1
       IN  /\ last.flag = "false"
           /\ Len(stack) = Depth
           /\ sp = Pre.sp
           /\ stack[Depth] = Pre.stack[Depth - i]
           /\ stack[Depth - i] = Pre.stack[Depth]
           /\ \A j \in 1..Depth :
                  j \notin {Depth, Depth - i} => stack[j] = Pre.stack[j]

\* SWAP16 on the stack 1..17 brought the 1 to the top
C4_Witness ==
    /\ last.opcode = \h9f
    /\ last.flag = "false"
    /\ Len(stack) = 17
    /\ stack[17] = U256_from(1)
    /\ stack[1] = U256_from(17)

\* C5: PUSHk with its k immediate bytes in the code and 3 gas at hand leaves
\* pc at the opcode's offset plus k + 1, takes exactly 3 gas and pushes the
\* immediate read as a big-endian number, zero-extended to 256 bits.
C5_PushImmediate ==
    (last.opcode \in PushOpcodes /\ Pre.gas >= 3
        /\ Pre.pc + 1 + (last.opcode - \h60 + 1) <= Len(code))
    => LET k == last.opcode - \h60 + 1
       IN  /\ last.flag = "false"
           /\ pc = Pre.pc + k + 1
           /\ gas = Pre.gas - 3
           /\ Len(stack) = Depth + 1
           /\ SubSeq(stack, 1, Depth) = Pre.stack
           /\ stack[Len(stack)] =
                  Tuple([j \in 1..32 |->
                            IF j <= k THEN code[Pre.pc + 1 + k + 1 - j] ELSE 0])

\* PUSH32 of the bytes 1..32: the first one became the most significant
C5_Witness ==
    /\ last.opcode = \h7f
    /\ last.flag = "false"
    /\ stack[Len(stack)][32] = 1
    /\ stack[Len(stack)][1] = 32
    /\ pc = Pre.pc + 33

\* C6: after MSTORE(addr, v) has completed, an MLOAD(addr) that is the next
\* operation on the memory pushes exactly v, whatever was stored before.
C6_StoreLoadRoundTrip ==
    (last.opcode = \h51 /\ last.flag = "false" /\ last_store # <<>>
        /\ Depth >= 1 /\ Pre.stack[Depth] = last_store[1])
    => /\ Len(stack) = Depth
       /\ stack[Len(stack)] = last_store[2]

\* address 0 held 5, the all-ones word was stored over it and read back
C6_Witness ==
    /\ code = Store(0, <<5>>) \o Store(0, Ones32) \o Load(0)
    /\ last.opcode = \h51
    /\ last.flag = "false"
    /\ last_store = <<U256_zero, U256_not(U256_zero)>>
    /\ stack = <<U256_not(U256_zero)>>

\* C7: JUMP and JUMPI move pc only to d + 1 for a popped d with
\* code[d] = 0x5b; with any other d, JUMPI's zero condition included, the
\* dispatch aborts and pc stays just past the opcode.
C7_JumpOnlyToJumpdest ==
    last.opcode \in {\h56, \h57}
    => /\ last.flag = "panic" => pc = Pre.pc + 1
       /\ Returned =>
            /\ Depth >= 1
            /\ ValidDest(Pre.stack[Depth])
            /\ pc \in {Pre.pc + 1, Value(Pre.stack[Depth]) + 1}
            /\ last.opcode = \h56 => pc = Value(Pre.stack[Depth]) + 1

\* JUMPI with condition 0 and a destination that is no JUMPDEST aborted
C7_Witness ==
    /\ last.opcode = \h57
    /\ last.flag = "panic"
    /\ abort = "op_jumpi: destination must be JUMPDEST"
    /\ Depth >= 2
    /\ Pre.stack[Depth - 1] = U256_zero
    /\ pc = Pre.pc + 1

\* C8: JUMPI with a valid destination d and condition c continues at the
\* byte after the JUMPI when c = 0 and at d + 1 for every nonzero c, those
\* whose low 32 bits are zero included.
C8_JumpIBranches ==
    (last.opcode = \h57 /\ Pre.gas >= 10 /\ Depth >= 2
        /\ ValidDest(Pre.stack[Depth]))
    => /\ last.flag = "false"
       /\ pc = IF Pre.stack[Depth - 1] = U256_zero
               THEN Pre.pc + 1
               ELSE Value(Pre.stack[Depth]) + 1

\* C9: every dispatch that completes appends exactly one entry to asm, so in
\* a run that has not aborted asm has one entry per dispatched opcode.
C9_OneEntryPerDispatch ==
    /\ status # "aborted" => Len(asm) = ndispatched
    /\ (last.opcode # -1 /\ Returned) =>
          /\ Len(asm) = Len(Pre.asm) + 1
          /\ SubSeq(asm, 1, Len(Pre.asm)) = Pre.asm

\* test_loop ran its five rounds: 33 dispatches, 33 entries, each taken
\* JUMPI continuing past its JUMPDEST
C9_Witness ==
    /\ status = "finished"
    /\ code = code_test_loop
    /\ ndispatched = 33
    /\ Len(asm) = 33

\* C10 as stated: exec returns true exactly when the opcode it fetched is
\* 0x3f and false for every other opcode.
C10_TrueIff3f ==
    (last.opcode # -1 /\ Returned) => (last.flag = "true" <=> last.opcode = \h3f)

\* C10: exec returns true exactly when the opcode it fetched is 0xf3
\* (RETURN), and exec_transaction stops there; for every other opcode, 0x3f
\* (EXTCODEHASH) included, exec does not return true.
C10_TrueIffReturn ==
    /\ (last.opcode # -1 /\ Returned) =>
          (last.flag = "true" <=> last.opcode = \hf3)
    /\ last.flag = "true" => status = "halted"

\* RETURN made exec return true and the run stop
C10_Witness ==
    /\ last.opcode = \hf3
    /\ last.flag = "true"
    /\ status = "halted"

\* RETURN as the latest dispatch, with its popped offset and length inside the
\* memory it found
ReturnInRange ==
    /\ last.opcode = \hf3
    /\ Depth >= 2
    /\ Value(Pre.stack[Depth]) >= 0
    /\ Value(Pre.stack[Depth - 1]) >= 0
    /\ Value(Pre.stack[Depth]) + Value(Pre.stack[Depth - 1]) <= Len(Pre.memory)

\* C11: RETURN with offset and length inside memory charges no gas, sets
\* returns to memory[offset .. offset+length) and halts the run: no opcode is
\* dispatched after it, so pc, gas, stack and asm stay as RETURN left them.
C11_ReturnHalts ==
    /\ [](ReturnInRange =>
            /\ last.flag = "true"
            /\ status = "halted"
            /\ gas = Pre.gas
            /\ pc = Pre.pc + 1
            /\ memory = Pre.memory
            /\ stack = SubSeq(Pre.stack, 1, Depth - 2)
            /\ asm = Append(Pre.asm, <<"RETURN">>)
            /\ returns = SubSeq(Pre.memory, Value(Pre.stack[Depth]) + 1,
                                Value(Pre.stack[Depth]) + Value(Pre.stack[Depth - 1])))
    /\ [][status # "halted"]_vars

\* test_deploy: RETURN handed out the five bytes CODECOPY had brought to the
\* memory and the run stopped at pc 11 with five bytes of code left
C11_Witness ==
    /\ code = code_test_deploy
    /\ status = "halted"
    /\ ReturnInRange
    /\ pc = 11
    /\ pc < Len(code)
    /\ returns = <<\h60, \h05, \h60, \h04, \h01>>

\* C12: pc never exceeds the length of the code, exec is entered only with
\* pc below it, and with pc at the end of the code exec_transaction stops
\* without a dispatch and without an abort.
C12_PcWithinCode ==
    /\ [](/\ pc <= Len(code)
          /\ last.opcode # -1 => Pre.pc < Len(code)
          /\ status = "finished" => pc = Len(code) /\ abort = "")
    /\ [][(status = "running" /\ pc >= Len(code))
            => /\ status' = "finished"
               /\ abort' = ""
               /\ UNCHANGED <<pc, gas, sp, stack, memory, asm, returns, storage,
                              ndispatched>>]_vars

\* a PUSH32 whose immediate ends the code left pc at the end and the run
\* finished there
C12_Witness ==
    /\ last.opcode = \h7f
    /\ Len(code) = 33
    /\ pc = Len(code)
    /\ status = "finished"
    /\ abort = ""

\* C13: the stack never holds more than 1024 words: a push on a stack of 1024
\* aborts instead of growing it.
C13_StackLimit ==
    /\ Len(stack) <= 1024
    /\ (last.opcode # -1 /\ Depth = 1024 /\ Len(stack) > Depth) => last.flag = "panic"

\* C14: BYTE(i, x) pushes the i-th byte of x, counted from the most significant
\* end, when i < 32, and pushes zero without an abort for every i >= 32.
C14_ByteOfWord ==
    (last.opcode = \h1a /\ Depth >= 2 /\ Pre.gas >= 3) =>
        LET i == Pre.stack[Depth]
            x == Pre.stack[Depth - 1]
            small == i[1] < 32 /\ \A k \in 2..32 : i[k] = 0
        IN  /\ last.flag = "false"
            /\ abort = ""
            /\ stack = Append(SubSeq(Pre.stack, 1, Depth - 2),
                              IF small THEN U256_from(x[32 - i[1]]) ELSE U256_zero)

\* C15: DIV pushes the quotient a / b when b is not zero, and pushes zero
\* without an abort when b is zero.
C15_DivByZeroIsZero ==
    (last.opcode = \h04 /\ Depth >= 2 /\ Pre.gas >= 5) =>
        LET a == Pre.stack[Depth]
            b == Pre.stack[Depth - 1]
        IN  /\ last.flag = "false"
            /\ abort = ""
            /\ stack = Append(SubSeq(Pre.stack, 1, Depth - 2),
                              IF is_zero(b) THEN U256_zero ELSE U256_div(a, b))

\* x to the power n modulo 2^256, by squaring: one turn, then count turns by
\* halves
WrapTurn(s) ==
    IF is_zero(s.n) THEN s
    ELSE [x |-> overflowing_mul(s.x, s.x).value,
          y |-> IF s.n[1] % 2 = 0 THEN s.y ELSE overflowing_mul(s.x, s.y).value,
          n |-> U256_shr1(s.n)]

RECURSIVE WrapLoop(_, _)
WrapLoop(s, count) ==
    IF is_zero(s.n) THEN s
    ELSE IF count = 1 THEN WrapTurn(s)
    ELSE WrapLoop(WrapLoop(s, count \div 2), count - count \div 2)

WrapPow(x, n) == WrapLoop([x |-> x, y |-> U256_from(1), n |-> n], 256).y

\* the result the opcode op has modulo 2^256 on operands a (top) and b
Wrapped(op, a, b) ==
    CASE op = \h01 -> overflowing_add(a, b).value
      [] op = \h02 -> overflowing_mul(a, b).value
      [] op = \h03 -> overflowing_sub(a, b).value
      [] op = \h0a -> WrapPow(a, b)

\* C16: ADD, SUB, MUL and EXP push their result modulo 2^256 and never abort
\* on overflow or underflow.
C16_ArithmeticWraps ==
    (last.opcode \in {\h01, \h02, \h03, \h0a} /\ Depth >= 2 /\ Pre.gas >= 10) =>
        /\ last.flag = "false"
        /\ abort = ""
        /\ stack = Append(SubSeq(Pre.stack, 1, Depth - 2),
                          Wrapped(last.opcode, Pre.stack[Depth], Pre.stack[Depth - 1]))

\* C17: a write that starts past the end of memory completes: MSTORE(addr, v),
\* and CODECOPY of n >= 1 bytes of the code to addr, with addr greater than the
\* length of memory, returns normally, leaves memory at least addr + n bytes long
\* (n = 32 for MSTORE) with the bytes before the prior end unchanged and the
\* bytes between the prior end and addr zero.
C17_WritePastEnd ==
    LET addr == Value(Pre.stack[Depth])
        n == IF last.opcode = \h52 THEN 32 ELSE Value(Pre.stack[Depth - 2])
        src == Value(Pre.stack[Depth - 1])
        end == Len(Pre.memory)
    IN  (/\ \/ last.opcode = \h52 /\ Depth >= 2
            \/ /\ last.opcode = \h39 /\ Depth >= 3
               /\ n >= 1 /\ src >= 0 /\ src + n <= Len(code)
         /\ Pre.gas >= 9
         /\ addr > end) =>
            /\ last.flag = "false"
            /\ abort = ""
            /\ Len(memory) >= addr + n
            /\ SubSeq(memory, 1, end) = Pre.memory
            /\ \A k \in (end + 1)..addr : memory[k] = 0

\* C18: memory writes are idempotent: an MSTORE(addr, v) dispatched when the
\* last write to memory was an MSTORE of the same v to the same addr returns
\* normally and leaves memory, its length and every byte, as it was.
C18_StoreIdempotent ==
    [][(/\ status = "running" /\ pc < Len(code) /\ code[pc + 1] = \h52
        /\ Len(stack) >= 2 /\ gas >= 6
        /\ last_store = <<stack[Len(stack)], stack[Len(stack) - 1]>>)
       => (abort' = "" /\ memory' = memory)]_vars

\* C19: MLOAD(addr) never aborts for lack of memory: it pushes the word made of
\* the 32 bytes from addr on, the bytes past the end of memory taken as zero.
C19_LoadReadsZero ==
    (last.opcode = \h51 /\ Depth >= 1 /\ Pre.gas >= 3 /\ Value(Pre.stack[Depth]) >= 0) =>
        LET addr == Value(Pre.stack[Depth])
            window == Tuple([i \in 1..32 |-> IF addr + i <= Len(Pre.memory)
                                             THEN Pre.memory[addr + i] ELSE 0])
        IN  /\ last.flag = "false"
            /\ abort = ""
            /\ stack = Append(SubSeq(Pre.stack, 1, Depth - 1), U256_from_bytes(window))

\* the run of the loop test: the countdown program on the 32-byte input 5
LoopRun == code = code_test_loop /\ input = Word32(5)

\* the last dispatch was a JUMPI that moved pc to its destination
BranchTaken == last.opcode = \h57 /\ last.flag = "false" /\ pc # Pre.pc + 1

\* C20 as stated: in the countdown program on input 5 the JUMPI at offset 11 is
\* taken exactly 5 times and then falls through, the run ending with pc = 12;
\* pc is 4 just after each taken branch.
C20_LoopTakenFiveTimes ==
    LoopRun =>
        /\ taken <= 5
        /\ BranchTaken => (Pre.pc = 11 /\ pc = 4)
        /\ status = "finished" =>
              /\ taken = 5
              /\ last.opcode = \h57 /\ Pre.pc = 11 /\ ~BranchTaken
              /\ pc = 12

\* C20, amended: the JUMPI at offset 11 is taken exactly 4 times (on the
\* counter values 4, 3, 2, 1) and falls through the fifth time it is reached (on
\* 0), the run ending with pc = 12; pc is 4 just after each taken branch, and
\* with enough gas the run does not abort and ends after 33 dispatches.
C20_LoopTakenFourTimes ==
    LoopRun =>
        /\ taken <= 4
        /\ BranchTaken => (Pre.pc = 11 /\ pc = 4 /\ stack = <<U256_from(5 - taken)>>)
        /\ status = "finished" =>
              /\ taken = 4
              /\ last.opcode = \h57 /\ Pre.pc = 11 /\ ~BranchTaken
              /\ pc = 12
        /\ gas0 = BigGas =>
              /\ abort = ""
              /\ ndispatched <= 33
              /\ ndispatched = 33 => pc = 12

\* the countdown has ended: four branches taken, the fifth JUMPI fell through
C20_Witness ==
    /\ LoopRun
    /\ status = "finished"
    /\ taken = 4
    /\ last.opcode = \h57
    /\ Pre.stack = <<U256_zero, U256_zero, U256_from(3)>>
    /\ pc = 12

\* the number of operands the handler of an implemented opcode pops
Needs(opcode) ==
    CASE opcode \in {\h01, \h02, \h03, \h04, \h0a, \h10, \h11, \h14, \h16, \h17, \h18,
                     \h1a, \h52, \h55, \h57, \hf3} -> 2
      [] opcode \in {\h15, \h19, \h35, \h51, \h54, \h56} -> 1
      [] opcode = \h39 -> 3
      [] OTHER -> 0

\* C21: stack underflow is fatal: an opcode that pops n operands, dispatched on
\* a stack of fewer than n words, aborts and leaves no result on the stack, and
\* SWAPi dispatched on a stack of i words or fewer aborts.
C21_UnderflowAborts ==
    (/\ last.opcode # -1
     /\ \/ Depth < Needs(last.opcode)
        \/ last.opcode \in SwapOpcodes /\ Depth <= last.opcode - \h90 + 1) =>
        /\ last.flag = "panic"
        /\ status = "aborted"
        /\ Len(stack) <= Depth

\* ADD found one word where it pops two, and SWAP16 found sixteen
C21_Witness ==
    /\ last.flag = "panic"
    /\ Pre.gas >= 3
    /\ \/ last.opcode = \h01 /\ Depth = 1 /\ abort = "unwrap on None"
       \/ last.opcode = \h9f /\ Depth = 16 /\ abort = "index out of bounds"

\* C22: DUPi dispatched on a stack of fewer than i words, a stack of one word
\* with i >= 2 included, aborts and pushes nothing.
C22_DupUnderflowAborts ==
    (last.opcode \in DupOpcodes /\ Depth < last.opcode - \h80 + 1) =>
        /\ last.flag = "panic"
        /\ status = "aborted"
        /\ stack = Pre.stack

\* C23: CALLDATALOAD(a) pushes the word whose 32 big-endian bytes are
\* input[a .. a+32), the bytes past the end of the input taken as zero, and
\* does not abort when a + 32 or a itself lies past the end of the input.
C23_CallDataLoadPads ==
    (last.opcode = \h35 /\ Depth >= 1 /\ Pre.gas >= 3 /\ Value(Pre.stack[Depth]) >= 0) =>
        LET a == Value(Pre.stack[Depth])
            window == Tuple([i \in 1..32 |-> IF a + i <= Len(input) THEN input[a + i] ELSE 0])
        IN  /\ last.flag = "false"
            /\ abort = ""
            /\ stack = Append(SubSeq(Pre.stack, 1, Depth - 1), U256_from_bytes(window))

\* the opcodes whose handlers do their work
Implemented == Arms \ (DOMAIN Stubs \cup {\h31})

\* the mnemonic of an implemented opcode (PUSH is followed by the immediate)
Mnemonic(opcode) ==
    CASE opcode = \h00 -> "STOP" [] opcode = \h01 -> "ADD" [] opcode = \h02 -> "MUL"
      [] opcode = \h03 -> "SUB" [] opcode = \h04 -> "DIV" [] opcode = \h0a -> "EXP"
      [] opcode = \h10 -> "LT" [] opcode = \h11 -> "GT" [] opcode = \h14 -> "EQ"
      [] opcode = \h15 -> "ISZERO" [] opcode = \h16 -> "AND" [] opcode = \h17 -> "OR"
      [] opcode = \h18 -> "XOR" [] opcode = \h19 -> "NOT" [] opcode = \h1a -> "BYTE"
      [] opcode = \h30 -> "ADDRESS" [] opcode = \h33 -> "CALLER"
      [] opcode = \h35 -> "CALLDATALOAD" [] opcode = \h36 -> "CALLDATASIZE"
      [] opcode = \h39 -> "CODECOPY" [] opcode = \h51 -> "MLOAD"
      [] opcode = \h52 -> "MSTORE" [] opcode = \h54 -> "SLOAD" [] opcode = \h55 -> "SSTORE"
      [] opcode = \h56 -> "JUMP" [] opcode = \h57 -> "JUMPI" [] opcode = \h5b -> "JUMPDEST"
      [] opcode = \hf3 -> "RETURN"
      [] opcode \in PushOpcodes -> "PUSH"
      [] opcode \in DupOpcodes -> "DUP"
      [] opcode \in SwapOpcodes -> "SWAP"

\* the last dispatch added one entry to asm, and it opens with its mnemonic
MnemonicAppended ==
    /\ Len(asm) = Len(Pre.asm) + 1
    /\ SubSeq(asm, 1, Len(Pre.asm)) = Pre.asm
    /\ asm[Len(asm)][1] = Mnemonic(last.opcode)

\* the last dispatch aborted on a stack too short for it
Underflowed ==
    /\ last.flag = "panic"
    /\ \/ Depth < Needs(last.opcode)
       \/ last.opcode \in SwapOpcodes /\ Depth <= last.opcode - \h90 + 1
       \/ last.opcode \in DupOpcodes /\ Depth < last.opcode - \h80 + 1

\* C24 as stated: every implemented handler appends its mnemonic before it
\* charges gas and before it touches the machine, so a dispatch that aborts for
\* gas shortage or stack underflow leaves the mnemonic of its opcode as the last
\* entry of asm.
C24_MnemonicFirst ==
    (last.opcode \in Implemented /\ (abort = "shortage of gas" \/ Underflowed)) =>
        MnemonicAppended

\* C24, amended: the handlers that charge gas charge it before they append the
\* mnemonic (SSTORE pops its operands before both, DUP reads the top of the
\* stack in between): a dispatch that aborts for gas shortage leaves asm as it
\* was, without the mnemonic of its opcode; a dispatch with the gas for it that
\* aborts for stack underflow leaves the mnemonic as the last entry, except in
\* SSTORE and in DUP on the empty stack, which leave asm as it was.
C24_GasBeforeMnemonic ==
    last.opcode \in Implemented =>
        /\ abort = "shortage of gas" => (last.flag = "panic" /\ asm = Pre.asm)
        /\ (Underflowed /\ abort # "shortage of gas") =>
              IF last.opcode = \h55 \/ (last.opcode \in DupOpcodes /\ Depth = 0)
              THEN asm = Pre.asm
              ELSE MnemonicAppended

\* ADD found two operands and 2 gas: it aborted before a mnemonic was appended
C24_Witness ==
    /\ last.opcode = \h01
    /\ Depth = 2
    /\ Pre.gas = 2
    /\ abort = "shortage of gas"
    /\ Len(Pre.asm) = 2
    /\ asm = Pre.asm

\* C25: an MSTORE(addr, v) that completes changes only the 32 bytes of memory
\* at [addr, addr+32): every byte held at another offset before it is held at
\* that same offset after it.
C25_StoreFrame ==
    (last.opcode = \h52 /\ last.flag = "false" /\ Depth >= 2) =>
        LET addr == Value(Pre.stack[Depth])
        IN  \A k \in 1..Len(Pre.memory) :
                (k <= addr \/ k > addr + 32) => (k <= Len(memory) /\ memory[k] = Pre.memory[k])

\* C26: a dispatch of STOP charges no gas, leaves stack, memory, storage and
\* returns as they were, appends the mnemonic STOP and moves pc by one; exec
\* returns false, the run goes on, and the next step of the driver dispatches
\* the opcode that follows the STOP.
C26_StopIsNoOp ==
    /\ [](last.opcode = \h00 =>
            /\ last.flag = "false"
            /\ abort = ""
            /\ gas = Pre.gas
            /\ stack = Pre.stack /\ sp = Pre.sp
            /\ memory = Pre.memory
            /\ storage = Pre.storage
            /\ returns = Pre.returns
            /\ asm = Append(Pre.asm, <<"STOP">>)
            /\ pc = Pre.pc + 1
            /\ status \in {"running", "finished"}
            /\ status = "finished" => pc = Len(code))
    /\ [][(last.opcode = \h00 /\ status = "running" /\ pc < Len(code)) =>
            (last'.opcode = code[pc + 1] /\ last'.pre = Machine)]_vars

\* a JUMPI not taken fell through to a STOP, and the JUMPDEST after the STOP
\* was dispatched
C26_Witness ==
    /\ last.opcode = \h5b
    /\ last.flag = "false"
    /\ Pre.pc >= 1
    /\ code[Pre.pc] = \h00
    /\ Len(Pre.asm) >= 1
    /\ Pre.asm[Len(Pre.asm)] = <<"STOP">>
    /\ asm = Pre.asm \o <<<<"JUMPDEST">>>>

\* the run has ended: RETURN halted it, the code ran out, or it aborted
Ended == status \in {"halted", "finished", "aborted"}

\* C27: every run of exec_transaction ends after finitely many dispatches: a
\* dispatch that leaves the run going either moves pc forward or is a JUMP or
\* JUMPI that cost at least 8 gas, and gas never goes below zero.
C27_Terminates ==
    /\ <>Ended
    /\ [][status' = "running" =>
            \/ pc' > pc
            \/ code[pc + 1] \in {\h56, \h57} /\ gas' <= gas - 8 /\ gas' >= 0]_vars

\* the JUMP loop went round until the gas ran out: 18 rounds of 11 gas
C27_Witness ==
    /\ code = <<\h5b, \h60, 0, \h56>>
    /\ status = "aborted"
    /\ abort = "shortage of gas"
    /\ gas < 8
    /\ ndispatched >= 2 * 18

\* C28: in every state sp is the length of the stack, whatever pushes, pops,
\* DUPs and SWAPs the handlers have done, and also when a dispatch aborted.
C28_SpIsStackLength ==
    /\ sp = Len(stack)
    /\ last.opcode # -1 => Pre.sp = Len(Pre.stack)

\* the countdown loop in its fourth round: PUSH, SWAP1, SUB and DUP1 have been
\* at the stack
C28_Witness ==
    /\ LoopRun
    /\ taken = 3
    /\ last.opcode = \h80
    /\ last.flag = "false"
    /\ Depth = 1
    /\ sp = 2
    /\ stack = <<U256_from(1), U256_from(1)>>

\* the last dispatch aborted because the gas left was less than its cost
GasShortage ==
    last.opcode \in Implemented /\ last.flag = "panic" /\ abort = "shortage of gas"

\* C29 as stated: when a dispatch of an implemented opcode aborts for gas
\* shortage, gas, stack, memory and storage are exactly as they were before it.
C29_ShortageChangesNothing ==
    GasShortage =>
        /\ gas = Pre.gas
        /\ stack = Pre.stack
        /\ memory = Pre.memory
        /\ storage = Pre.storage

\* C29, amended: when a dispatch of an implemented opcode aborts for gas
\* shortage, gas, memory and storage are exactly as they were before it, and so
\* is the stack for every opcode but SSTORE, which has popped its key and its
\* value by then.
C29_ShortageKeepsAllButSStoreOperands ==
    GasShortage =>
        /\ gas = Pre.gas
        /\ memory = Pre.memory
        /\ storage = Pre.storage
        /\ asm = Pre.asm
        /\ IF last.opcode = \h55
           THEN Depth >= 2 /\ stack = SubSeq(Pre.stack, 1, Depth - 2) /\ sp = Pre.sp - 2
           ELSE stack = Pre.stack /\ sp = Pre.sp

\* SSTORE found 2 gas where it needs 5000: its two operands are gone from the
\* stack
C29_Witness ==
    /\ GasShortage
    /\ last.opcode = \h55
    /\ Pre.gas = 2
    /\ gas = 2
    /\ Depth = 2
    /\ stack = <<>>
    /\ storage = Pre.storage

====
